---------------------------- MODULE Spec2Model ----------------------------
(***************************************************************************)
(* Seat distribution of one event: Session::rank_applications and          *)
(* Event::allocate_participants (src/src/backend/data.rs), driven by the   *)
(* close_and_distribute handler (src/src/gui/admin.rs).                    *)
(*                                                                         *)
(* The handler holds the storage write lock from its first to its last     *)
(* line, so a run is a sequence of steps of one thread: the state change   *)
(* and the clone, the ranking of every session, one step per turn of the   *)
(* while-let loop of allocate_participants_in_slot, the end of a slot's    *)
(* loop, and the final state change.                                       *)
(*                                                                         *)
(* Spec is the run alone, from any event of the bounded input space.       *)
(* SpecApp puts the run among the other users of the storage lock: the     *)
(* handlers set_event_state (src/src/gui/admin.rs) and save_preferences    *)
(* (src/src/gui/user.rs) and the autosave task (src/src/backend/state.rs), *)
(* from a new event.                                                       *)
(***************************************************************************)
EXTENDS Integers, Sequences, FiniteSets

VARIABLES
    state,             \* Event.state
    slots,             \* Event.slots: Vec<Slot>, each a Vec<Session>
    participants,      \* Event.participants: id -> points_from_previous_rounds
    pc,                \* the handler's position: "idle", "rank", "allocate"
    index,             \* the slot index of Event::allocate_participants (1-based)
    ev_clone_for_ref,  \* the clone of the event the ranking reads
    log,               \* the last step and what it printed
    response,          \* the last response a handler returned
    saved,             \* what the autosave task serialized last
    issued             \* the application uuids Uuid::new_v4 has returned

vars == <<state, slots, participants, pc, index, ev_clone_for_ref, log,
          response, saved, issued>>

----------------------------------------------------------------------------
(* Bounds of the checked inputs.                                           *)

\* Seats of a session: 1..MaxSeats.
MaxSeats == 2

\* Participant ids that occur in applications.
ParticipantIds == {1, 2, 3}
\* Uuids of the applications pending in the event when the run starts.
ApplicationUuids == {1, 2, 3}
\* Session uuids of each slot, in stored order: slot 1 holds 1 and 2, slot 2 holds 3.
Layout == <<(<<1, 2>>), (<<3>>)>>
\* Carried points a participant may hold when the run starts.
PointValues == {0, 5}

----------------------------------------------------------------------------
(* Option<usize>                                                           *)

None == <<>>
Some(x) == <<x>>
unwrap_or(o, d) == IF o = None THEN d ELSE o[1]

\* Ord for Option<usize>: None is less than every Some.
option_cmp(a, b) ==
    IF a = b THEN "Equal"
    ELSE IF a = None THEN "Less"
    ELSE IF b = None THEN "Greater"
    ELSE IF a[1] < b[1] THEN "Less" ELSE "Greater"

int_cmp(a, b) == IF a = b THEN "Equal" ELSE IF a < b THEN "Less" ELSE "Greater"

then(first, second) == IF first = "Equal" THEN second ELSE first

----------------------------------------------------------------------------
(* Application                                                             *)

Priorities == {"FirstPreference", "SecondPreference", "ThirdPreference", "NoPreference"}

\* A plausible slip: the arms of the second and third preference swapped.
preference_points_swapped(priority) ==
    CASE priority = "FirstPreference" -> 15
      [] priority = "SecondPreference" -> 5
      [] priority = "ThirdPreference" -> 10
      [] priority = "NoPreference" -> 0

\* The match of Application::calculate_points.
preference_points(priority) ==
    CASE priority = "FirstPreference" -> 15
      [] priority = "SecondPreference" -> 10
      [] priority = "ThirdPreference" -> 5
      [] priority = "NoPreference" -> 0

\* A plausible slip: the carried points are left out of the score.
calculate_points_without_carried(application, points_from_previous_rounds) ==
    [application EXCEPT
        !.calculated_points = Some(preference_points(application.priority))]

\* A plausible slip: the score starts from the stored one instead of 0.
calculate_points_accumulated(application, points_from_previous_rounds) ==
    LET points0 == unwrap_or(application.calculated_points, 0)
                   + points_from_previous_rounds
    IN [application EXCEPT
           !.calculated_points = Some(points0 + preference_points(application.priority))]

calculate_points(application, points_from_previous_rounds) ==
    LET points0 == IF points_from_previous_rounds # 0
                   THEN 0 + points_from_previous_rounds ELSE 0
    IN [application EXCEPT
           !.calculated_points = Some(points0 + preference_points(application.priority))]

\* A plausible slip: the uuid comparison of the tie-break reversed.
cmp_uuid_reversed(self, other) ==
    then(option_cmp(self.calculated_points, other.calculated_points),
         int_cmp(other.uuid, self.uuid))

\* impl Ord for Application
cmp(self, other) ==
    then(option_cmp(self.calculated_points, other.calculated_points),
         int_cmp(self.uuid, other.uuid))

\* A plausible slip: |a, b| a.cmp(b), the queue sorted worst first.
sort_closure_ascending(a, b) == cmp(a, b)

\* The closure of sort_by in rank_applications: |a, b| b.cmp(a).
sort_closure(a, b) == cmp(b, a)

\* Vec::sort_by is a stable sort: insertion from the left, an element going
\* behind every element it does not compare Less to.
RECURSIVE insert_sorted(_, _)
insert_sorted(sorted, x) ==
    IF sorted = <<>> THEN <<x>>
    ELSE IF sort_closure(x, Head(sorted)) = "Less"
         THEN <<x>> \o sorted
         ELSE <<Head(sorted)>> \o insert_sorted(Tail(sorted), x)

RECURSIVE sort_by(_)
sort_by(v) ==
    IF v = <<>> THEN <<>>
    ELSE insert_sorted(sort_by(SubSeq(v, 1, Len(v) - 1)), v[Len(v)])

----------------------------------------------------------------------------
(* Session                                                                 *)

\* A plausible slip: an application of an unknown participant is kept and
\* scored as if the participant carried no points.
RECURSIVE retain_and_score_keeping_unknown(_, _)
retain_and_score_keeping_unknown(applications, table) ==
    IF applications = <<>> THEN <<>>
    ELSE LET application == Head(applications)
             rest == retain_and_score_keeping_unknown(Tail(applications), table)
         IN IF application.participant \notin DOMAIN table
            THEN <<calculate_points(application, 0)>> \o rest
            ELSE <<calculate_points(application, table[application.participant])>> \o rest

\* retain_mut of rank_applications: an application whose participant is not
\* in the event's table is dropped, every other one gets its points.
RECURSIVE retain_and_score(_, _)
retain_and_score(applications, table) ==
    IF applications = <<>> THEN <<>>
    ELSE LET application == Head(applications)
             rest == retain_and_score(Tail(applications), table)
         IN IF application.participant \notin DOMAIN table
            THEN rest
            ELSE <<calculate_points(application, table[application.participant])>> \o rest

\* Session::rank_applications(&mut self, event)
rank_applications(session, event) ==
    [session EXCEPT
        !.applications = sort_by(retain_and_score(session.applications, event.participants))]

\* The participant ids rank_applications reports as not found (eprintln!).
not_found(session, event) ==
    {session.applications[k].participant : k \in
        {j \in 1..Len(session.applications) :
            session.applications[j].participant \notin DOMAIN event.participants}}

----------------------------------------------------------------------------
(* Slot                                                                    *)

\* A plausible slip: < for <=, so that the first session wins a tie.
highscore_reached_strict(highscore, points) == highscore < points

\* The comparison of find_session_with_highest_ranked_application.
highscore_reached(highscore, points) == highscore <= points

\* A plausible slip: the loop keeps the uuid of the application in place of
\* the uuid of its session.
RECURSIVE find_loop_application_uuid(_, _, _, _)
find_loop_application_uuid(sessions, k, highscore, highscore_session_id) ==
    IF k > Len(sessions) THEN highscore_session_id
    ELSE LET session == sessions[k] IN
         IF session.applications # <<>> /\
            highscore_reached(highscore,
                unwrap_or(Head(session.applications).calculated_points, 0))
         THEN find_loop_application_uuid(sessions, k + 1,
                  unwrap_or(Head(session.applications).calculated_points, 0),
                  Some(Head(session.applications).uuid))
         ELSE find_loop_application_uuid(sessions, k + 1, highscore,
                                         highscore_session_id)

\* The for loop of find_session_with_highest_ranked_application, from
\* session k on, with the loop's two locals.
RECURSIVE find_loop(_, _, _, _)
find_loop(sessions, k, highscore, highscore_session_id) ==
    IF k > Len(sessions) THEN highscore_session_id
    ELSE LET session == sessions[k] IN
         IF session.applications # <<>> /\
            highscore_reached(highscore,
                unwrap_or(Head(session.applications).calculated_points, 0))
         THEN find_loop(sessions, k + 1,
                  unwrap_or(Head(session.applications).calculated_points, 0),
                  Some(Head(session.applications).session_uuid))
         ELSE find_loop(sessions, k + 1, highscore, highscore_session_id)

\* Slot::find_session_with_highest_ranked_application(&self) -> Option<Uuid>
find_session_with_highest_ranked_application(slot) ==
    find_loop(slot.sessions, 1, 0, None)

\* slot.sessions.iter_mut().find(|s| s.uuid == session_id): the position of
\* the first session with that uuid, 0 when there is none (the unwrap fails).
session_position(slot, session_id) ==
    LET hits == {k \in 1..Len(slot.sessions) : slot.sessions[k].uuid = session_id}
    IN IF hits = {} THEN 0 ELSE CHOOSE k \in hits : \A j \in hits : k <= j

----------------------------------------------------------------------------
(* Event::allocate_participants_in_slot, one turn of its loop              *)

\* A plausible slip: the session counts as full one seat early.
all_seats_taken_one_early(session) == Len(session.participants) + 1 >= session.seats

\* A plausible slip: > for >=, one seat too many.
all_seats_taken_off_by_one(session) == Len(session.participants) > session.seats

\* if session.participants.len() >= session.seats
all_seats_taken(session) == Len(session.participants) >= session.seats

\* A plausible slip: the queue of the full session is left as it is.
clear_applications_forgotten(slot, k) == slot

\* A plausible slip: only the selected application is dropped.
clear_applications_first_only(slot, k) ==
    [slot EXCEPT !.sessions[k].applications = Tail(@)]

\* session.applications = Vec::new()
clear_applications(slot, k) ==
    [slot EXCEPT !.sessions[k].applications = <<>>]

\* A plausible slip: the uuid pushed is the application's, not the
\* participant's (both are uuid::Uuid).
seat_first_application_by_uuid(slot, k) ==
    [slot EXCEPT !.sessions[k].applications = Tail(@),
                 !.sessions[k].participants =
                     Append(@, Head(slot.sessions[k].applications).uuid)]

\* let application = session.applications.remove(0);
\* session.participants.push(participant_id);
seat_first_application(slot, k) ==
    [slot EXCEPT !.sessions[k].applications = Tail(@),
                 !.sessions[k].participants =
                     Append(@, Head(slot.sessions[k].applications).participant)]

\* A plausible slip: the other sessions keep the participant's applications.
remove_participant_applications_forgotten(slot, participant_id) == slot

\* for session in slot.sessions.iter_mut() { session.applications.retain_mut(..) }
remove_participant_applications(slot, participant_id) ==
    [slot EXCEPT !.sessions =
        [k \in 1..Len(slot.sessions) |->
            [slot.sessions[k] EXCEPT !.applications =
                SelectSeq(@, LAMBDA a : a.participant # participant_id)]]]

\* The points the match on application.priority assigns.
points_for_granted(priority) ==
    CASE priority = "FirstPreference" -> 0
      [] priority = "SecondPreference" -> 5
      [] priority = "ThirdPreference" -> 10
      [] priority = "NoPreference" -> 15

\* A plausible slip, the one the code's comments describe ("add 5 points").
set_points_from_previous_rounds_added(table, participant_id, priority) ==
    IF participant_id \in DOMAIN table
    THEN [table EXCEPT ![participant_id] = @ + points_for_granted(priority)]
    ELSE table

\* if let Some(participant) = self.participants.get_mut(&participant_id)
\*     { participant.points_from_previous_rounds = .. }
set_points_from_previous_rounds(table, participant_id, priority) ==
    IF participant_id \in DOMAIN table
    THEN [table EXCEPT ![participant_id] = points_for_granted(priority)]
    ELSE table

\* A plausible slip: the slot's sessions are ranked again, with the points the
\* run has written so far, when the slot is fetched.
slot_of_event_reranked(index_) ==
    [slots[index_] EXCEPT !.sessions =
        [k \in 1..Len(slots[index_].sessions) |->
            rank_applications(slots[index_].sessions[k],
                              [participants |-> participants])]]

\* let slot = self.slots.get_mut(index).unwrap();
slot_of_event(index_) == slots[index_]

----------------------------------------------------------------------------
(* The events a run starts from.                                           *)

SessionIds == UNION {{Layout[i][k] : k \in 1..Len(Layout[i])} : i \in 1..Len(Layout)}

slot_of_session(session_id) ==
    CHOOSE i \in 1..Len(Layout) : \E k \in 1..Len(Layout[i]) : Layout[i][k] = session_id

Requests == [session_uuid : SessionIds, participant : ParticipantIds, priority : Priorities]

\* The applications of an event in the order they were pushed, of any
\* ApplicationPriority, each participant with at most one application per
\* session and at most one first, second and third preference per slot (what
\* save_preferences keeps). Applications of different sessions are never
\* compared, so they are listed session by session; the participants are
\* numbered in the order of their first application.
IsRequestList(q) ==
    /\ \A i, j \in DOMAIN q : i < j =>
          /\ q[i].session_uuid <= q[j].session_uuid
          /\ ~(q[i].session_uuid = q[j].session_uuid /\ q[i].participant = q[j].participant)
          /\ ~(/\ q[i].participant = q[j].participant
               /\ slot_of_session(q[i].session_uuid) = slot_of_session(q[j].session_uuid)
               /\ q[i].priority = q[j].priority
               /\ q[i].priority # "NoPreference")
    /\ \A j \in DOMAIN q :
          \/ q[j].participant = 1
          \/ \E i \in 1..(j - 1) : q[i].participant >= q[j].participant - 1

RequestLists ==
    UNION {{q \in [1..n -> Requests] : IsRequestList(q)} :
              n \in 0..Cardinality(ApplicationUuids)}

\* The uuids of the applications of q, distinct (Uuid::new_v4) and in any
\* order inside a session's queue.
UuidOrders(q) ==
    {u \in [DOMAIN q -> ApplicationUuids] :
        /\ \A i \in DOMAIN q : u[i] <= Len(q)
        /\ \A i, j \in DOMAIN q : i # j => u[i] # u[j]
        /\ \A i, j \in DOMAIN q :
              (i < j /\ q[i].session_uuid # q[j].session_uuid) => u[i] < u[j]}

\* Application { uuid: Uuid::new_v4(), session_uuid, participant, priority,
\*               calculated_points: None }
new_application(uuid, request) ==
    [uuid |-> uuid, session_uuid |-> request.session_uuid,
     participant |-> request.participant, priority |-> request.priority,
     calculated_points |-> None]

\* Session::new, with the applications pushed since.
new_session(session_id, seats, q, u) ==
    [uuid |-> session_id, seats |-> seats, participants |-> <<>>,
     applications |->
        LET mine == SelectSeq([j \in DOMAIN q |-> j],
                              LAMBDA j : q[j].session_uuid = session_id)
        IN [n \in 1..Len(mine) |-> new_application(u[mine[n]], q[mine[n]])]]

new_slots(seats, q, u) ==
    [i \in 1..Len(Layout) |->
        [uuid |-> i,
         sessions |-> [k \in 1..Len(Layout[i]) |->
                          new_session(Layout[i][k], seats[Layout[i][k]], q, u)]]]

\* The participant table: at most one participant either carries points from
\* an earlier round or is missing from the table.
ParticipantTables ==
    {[p \in ParticipantIds |-> 0]}
    \cup {[p \in ParticipantIds |-> IF p = s THEN v ELSE 0] :
             s \in ParticipantIds, v \in PointValues \ {0}}
    \cup {[p \in ParticipantIds \ {s} |-> 0] : s \in ParticipantIds}

\* Every session of the event is created with the same number of seats.
SeatChoices == {[s \in SessionIds |-> n] : n \in 1..MaxSeats}

----------------------------------------------------------------------------
(* The run                                                                 *)

Event == [state |-> state, slots |-> slots, participants |-> participants]

Quiet(step) == [kind |-> step]

\* What a handler returned: Ok(Redirect) or Err(Status), with the event state
\* it read under the lock ("none" when it returned before taking the lock)
\* and, for set_event_state, the state the form asked for.
Response(handler, status, seen, desired) ==
    [handler |-> handler, status |-> status, seen |-> seen, desired |-> desired]

no_response == Response("none", "none", "none", "none")

\* An event of the storage (AppState::load_or_new reads it from the state
\* file), open for registration, nobody seated yet, before the handler runs.
Init ==
    \E q \in RequestLists : \E u \in UuidOrders(q) :
    \E seats \in SeatChoices : \E table \in ParticipantTables :
        /\ state = "OpenForRegistration"
        /\ slots = new_slots(seats, q, u)
        /\ participants = table
        /\ pc = "idle"
        /\ index = 0
        /\ ev_clone_for_ref = [state |-> "OpenForRegistration", slots |-> <<>>,
                               participants |-> <<>>]
        /\ log = Quiet("start")
        /\ response = no_response
        /\ saved = None
        /\ issued = {u[j] : j \in DOMAIN q}

\* The guard of state.storage.write() of close_and_distribute lives from the
\* call to the return of the handler.
storage_write_locked == pc # "idle"

\* state.storage.write() returns: nobody holds the lock.
storage_write == ~storage_write_locked

\* A plausible slip: the snapshot is serialized without taking the lock.
storage_read_unguarded == TRUE

\* storage.read() returns: no writer holds the lock.
storage_read == ~storage_write_locked

\* A plausible slip: the check only turns away a finished event.
can_close_and_distribute_unless_finished(state_) == state_ # "Finished"

\* matches!(ev.state, EventState::OpenForRegistration)
can_close_and_distribute(state_) == state_ = "OpenForRegistration"

\* close_and_distribute up to the clone: the state check, the move to
\* AssigningSeats, let ev_clone_for_ref = ev.clone().
CloseAndDistribute ==
    /\ storage_write
    /\ can_close_and_distribute(state)
    /\ state' = "AssigningSeats"
    /\ ev_clone_for_ref' = [Event EXCEPT !.state = "AssigningSeats"]
    /\ pc' = "rank"
    /\ log' = Quiet("assigning")
    /\ response' = Response("close_and_distribute", "running", state, "none")
    /\ UNCHANGED <<slots, participants, index, saved, issued>>

\* A plausible slip: only the sessions of the first slot are ranked before
\* the allocation starts.
ranked_slots_first_slot_only(slots_, event) ==
    [i \in 1..Len(slots_) |->
        IF i # 1 THEN slots_[i]
        ELSE [slots_[i] EXCEPT !.sessions =
                 [k \in 1..Len(slots_[i].sessions) |->
                     rank_applications(slots_[i].sessions[k], event)]]]

\* for slot in ev.slots.iter_mut() { for session in slot.sessions.iter_mut() {
\* session.rank_applications(&ev_clone_for_ref) } }
ranked_slots(slots_, event) ==
    [i \in 1..Len(slots_) |->
        [slots_[i] EXCEPT !.sessions =
            [k \in 1..Len(slots_[i].sessions) |->
                rank_applications(slots_[i].sessions[k], event)]]]

\* The two for loops of close_and_distribute: every session of every slot is
\* ranked against the clone.
RankAll ==
    /\ pc = "rank"
    /\ slots' = ranked_slots(slots, ev_clone_for_ref)
    /\ pc' = "allocate"
    /\ index' = 1
    /\ log' = [kind |-> "ranked",
               not_found |-> UNION {UNION {not_found(slots[i].sessions[k], ev_clone_for_ref) :
                                              k \in 1..Len(slots[i].sessions)} :
                                       i \in 1..Len(slots)}]
    /\ UNCHANGED <<state, participants, ev_clone_for_ref, response, saved, issued>>

\* The session the while-let of allocate_participants_in_slot gets.
Selected == find_session_with_highest_ranked_application(slot_of_event(index))

\* One turn of the loop that finds the selected session full: its queue is
\* cleared ("No more seats for session ..").
NoMoreSeats ==
    /\ pc = "allocate"
    /\ index <= Len(slots)
    /\ Selected # None
    /\ LET slot == slot_of_event(index)
           k == session_position(slot, Selected[1])
       IN /\ k # 0
          /\ all_seats_taken(slot.sessions[k])
          /\ slots' = [slots EXCEPT ![index] = clear_applications(slot, k)]
          /\ log' = [kind |-> "no_more_seats", session |-> slot.sessions[k].uuid]
    /\ UNCHANGED <<state, participants, pc, index, ev_clone_for_ref,
                   response, saved, issued>>

\* One turn of the loop that seats the first application of the selected
\* session ("Added participant .. to session ..").
AddParticipant ==
    /\ pc = "allocate"
    /\ index <= Len(slots)
    /\ Selected # None
    /\ LET slot == slot_of_event(index)
           k == session_position(slot, Selected[1])
       IN /\ k # 0
          /\ ~all_seats_taken(slot.sessions[k])
          /\ LET application == Head(slot.sessions[k].applications)
                 participant_id == application.participant
             IN /\ slots' = [slots EXCEPT ![index] =
                               remove_participant_applications(
                                   seat_first_application(slot, k), participant_id)]
                /\ participants' = set_points_from_previous_rounds(
                                       participants, participant_id, application.priority)
                /\ log' = [kind |-> "added", participant |-> participant_id,
                           points |-> application.calculated_points,
                           priority |-> application.priority,
                           session |-> slot.sessions[k].uuid]
    /\ UNCHANGED <<state, pc, index, ev_clone_for_ref, response, saved, issued>>

\* find_session_with_highest_ranked_application returns None: the slot's loop
\* ends and allocate_participants goes on to the next index.
SlotDone ==
    /\ pc = "allocate"
    /\ index <= Len(slots)
    /\ Selected = None
    /\ index' = index + 1
    /\ log' = Quiet("slot_done")
    /\ UNCHANGED <<state, slots, participants, pc, ev_clone_for_ref,
                   response, saved, issued>>

\* allocate_participants has returned: ev.state = EventState::Finished.
Finish ==
    /\ pc = "allocate"
    /\ index > Len(slots)
    /\ state' = "Finished"
    /\ pc' = "idle"
    /\ log' = Quiet("finished")
    /\ response' = Response("close_and_distribute", "Redirect", "OpenForRegistration", "none")
    /\ UNCHANGED <<slots, participants, index, ev_clone_for_ref, saved, issued>>

Next ==
    \/ CloseAndDistribute
    \/ RankAll
    \/ NoMoreSeats
    \/ AddParticipant
    \/ SlotDone
    \/ Finish

Spec == Init /\ [][Next]_vars

----------------------------------------------------------------------------
(* The handlers around the run. Each takes the storage lock, so each is    *)
(* one step; a run in progress holds the write lock and keeps them out.    *)

\* The participants of the event's invitations, and the uuids Uuid::new_v4
\* can return for the applications they save.
Invited == {1, 2}
NewApplicationUuids == {1, 2}

EventStates == {"NotOpenedYet", "OpenForRegistration", "AssigningSeats", "Finished"}

\* The state field of SetStateForm: the name of a state or any other string.
DesiredStates == EventStates \cup {"Unknown"}

\* let target = match desired.as_str() { .. }: only two names parse.
target_of(desired) ==
    IF desired \in {"NotOpenedYet", "OpenForRegistration"} THEN Some(desired) ELSE None

\* A plausible slip: every parsed target is accepted.
allowed_transition_always(state_, target) == TRUE

\* let allowed_transition = matches!(..) || discriminant(&ev.state) == discriminant(&target)
allowed_transition(state_, target) ==
    \/ state_ = "NotOpenedYet" /\ target = "OpenForRegistration"
    \/ state_ = "OpenForRegistration" /\ target = "NotOpenedYet"
    \/ state_ = target

\* set_event_state.
SetEventState ==
    \E desired \in DesiredStates :
        /\ storage_write
        /\ LET target == target_of(desired)
           IN IF target # None /\ allowed_transition(state, target[1])
              THEN /\ state' = target[1]
                   /\ response' = Response("set_event_state", "Redirect", state, desired)
              ELSE /\ state' = state
                   /\ response' = Response("set_event_state", "BadRequest", state, desired)
        /\ UNCHANGED <<slots, participants, pc, index, ev_clone_for_ref, log, saved, issued>>

\* close_and_distribute on an event that is not open for registration:
\* return Err(Status::BadRequest).
CloseAndDistributeRejected ==
    /\ storage_write
    /\ ~can_close_and_distribute(state)
    /\ response' = Response("close_and_distribute", "BadRequest", state, "none")
    /\ UNCHANGED <<state, slots, participants, pc, index, ev_clone_for_ref, log,
                   saved, issued>>

\* PreferencesForm: first, second, third, each an Option<Uuid>; the checked
\* forms leave the third preference out.
PreferencesForms ==
    [first : {None} \cup {Some(id) : id \in SessionIds},
     second : {None} \cup {Some(id) : id \in SessionIds},
     third : {None}]

\* The slot_id of the path: a slot of the event, or 0 for any other uuid.
SlotIds == 0..Len(Layout)

\* The sessions the form names, with the priority each is pushed with.
picks_of(form) ==
    SelectSeq(<<[id |-> form.first, priority |-> "FirstPreference"],
                [id |-> form.second, priority |-> "SecondPreference"],
                [id |-> form.third, priority |-> "ThirdPreference"]>>,
              LAMBDA pick : pick.id # None)

\* if picks[i] == picks[j] { return Err(Status::BadRequest); }
has_duplicates(picks) ==
    \E i, j \in DOMAIN picks : i < j /\ picks[i].id = picks[j].id

\* The checks of save_preferences made under the lock, in their order.
save_preferences_status(event, pid, slot_id, picks) ==
    IF pid \notin DOMAIN event.participants THEN "BadRequest"
    ELSE IF slot_id \notin DOMAIN event.slots THEN "NotFound"
    ELSE IF \E n \in DOMAIN picks :
               \A k \in DOMAIN event.slots[slot_id].sessions :
                   event.slots[slot_id].sessions[k].uuid # picks[n].id[1]
         THEN "BadRequest"
    ELSE "Redirect"

\* A plausible slip: the earlier applications of the participant are kept.
save_preferences_without_retain(slot, pid, picks, uuids) ==
    [slot EXCEPT !.sessions =
        [k \in DOMAIN slot.sessions |->
            [slot.sessions[k] EXCEPT !.applications =
                @ \o LET mine == SelectSeq([n \in DOMAIN picks |-> n],
                                           LAMBDA n : picks[n].id = Some(slot.sessions[k].uuid))
                     IN [m \in DOMAIN mine |->
                            new_application(uuids[mine[m]],
                                [session_uuid |-> slot.sessions[k].uuid,
                                 participant |-> pid,
                                 priority |-> picks[mine[m]].priority])]]]]

\* A plausible slip: session_uuid is given the slot_id of the path instead
\* of the picked session's id.
save_preferences_session_uuid_of_slot(slot, pid, picks, uuids) ==
    [slot EXCEPT !.sessions =
        [k \in DOMAIN slot.sessions |->
            [slot.sessions[k] EXCEPT !.applications =
                SelectSeq(@, LAMBDA a : a.participant # pid)
                \o LET mine == SelectSeq([n \in DOMAIN picks |-> n],
                                         LAMBDA n : picks[n].id = Some(slot.sessions[k].uuid))
                   IN [m \in DOMAIN mine |->
                          new_application(uuids[mine[m]],
                              [session_uuid |-> slot.uuid,
                               participant |-> pid,
                               priority |-> picks[mine[m]].priority])]]]]

\* sess.applications.retain(|a| a.participant != pid) for every session of
\* the slot, then one push per pick onto the session it names.
save_preferences(slot, pid, picks, uuids) ==
    [slot EXCEPT !.sessions =
        [k \in DOMAIN slot.sessions |->
            [slot.sessions[k] EXCEPT !.applications =
                SelectSeq(@, LAMBDA a : a.participant # pid)
                \o LET mine == SelectSeq([n \in DOMAIN picks |-> n],
                                         LAMBDA n : picks[n].id = Some(slot.sessions[k].uuid))
                   IN [m \in DOMAIN mine |->
                          new_application(uuids[mine[m]],
                              [session_uuid |-> slot.sessions[k].uuid,
                               participant |-> pid,
                               priority |-> picks[mine[m]].priority])]]]]

\* The uuids Uuid::new_v4 gives to n new applications: distinct, none issued
\* before, in any order.
NewUuids(n) ==
    {u \in [1..n -> NewApplicationUuids \ issued] : \A i, j \in 1..n : i # j => u[i] # u[j]}

\* save_preferences turned away before it takes the lock: two picks name the
\* same session.
SavePreferencesDuplicates ==
    /\ {form \in PreferencesForms : has_duplicates(picks_of(form))} # {}
    /\ response' = Response("save_preferences", "BadRequest", "none", "none")
    /\ UNCHANGED <<state, slots, participants, pc, index, ev_clone_for_ref, log,
                   saved, issued>>

\* The requests save_preferences checks under the lock.
PreferenceRequests ==
    {r \in [pid : Invited, slot_id : SlotIds, form : PreferencesForms] :
        ~has_duplicates(picks_of(r.form))}

\* save_preferences turned away under the lock: the participant, the slot or
\* a picked session is not found.
SavePreferencesRejected ==
    \E status \in {save_preferences_status(Event, r.pid, r.slot_id, picks_of(r.form)) :
                       r \in PreferenceRequests} \ {"Redirect"} :
        /\ storage_write
        /\ response' = Response("save_preferences", status, state, "none")
        /\ UNCHANGED <<state, slots, participants, pc, index, ev_clone_for_ref, log,
                       saved, issued>>

\* save_preferences going through, for the participant of the invitation:
\* the old applications of the slot are dropped and the new ones pushed.
SavePreferences ==
    \E r \in PreferenceRequests :
        LET picks == picks_of(r.form)
        IN /\ storage_write
           /\ save_preferences_status(Event, r.pid, r.slot_id, picks) = "Redirect"
           /\ \E uuids \in NewUuids(Len(picks)) :
                 /\ slots' = [slots EXCEPT ![r.slot_id] =
                                 save_preferences(@, r.pid, picks, uuids)]
                 /\ issued' = issued \cup {uuids[n] : n \in DOMAIN uuids}
           /\ response' = Response("save_preferences", "Redirect", state, "none")
           /\ UNCHANGED <<state, participants, pc, index, ev_clone_for_ref, log, saved>>

\* What of the event the properties read in the JSON of a snapshot: the
\* state, who is seated where, the points, and whether any application has
\* been scored.
to_string_pretty(event) ==
    [state |-> event.state,
     participants |-> [i \in DOMAIN event.slots |->
                          [k \in DOMAIN event.slots[i].sessions |->
                              event.slots[i].sessions[k].participants]],
     points |-> event.participants,
     scored |-> \E i \in DOMAIN event.slots : \E k \in DOMAIN event.slots[i].sessions :
                   \E n \in DOMAIN event.slots[i].sessions[k].applications :
                       event.slots[i].sessions[k].applications[n].calculated_points # None]

\* One turn of the autosave loop: the storage is serialized under the read
\* lock.
Autosave ==
    /\ storage_read
    /\ saved' = Some(to_string_pretty(Event))
    /\ UNCHANGED <<state, slots, participants, pc, index, ev_clone_for_ref, log,
                   response, issued>>

\* A new event with its slots and its sessions of one seat each, no
\* application yet; the participants of the invitations have opened the
\* event and given a name.
InitApp ==
    \E seats \in {[s \in SessionIds |-> 1]} :
        /\ state = "NotOpenedYet"
        /\ slots = new_slots(seats, <<>>, <<>>)
        /\ participants = [p \in Invited |-> 0]
        /\ pc = "idle"
        /\ index = 0
        /\ ev_clone_for_ref = [state |-> "NotOpenedYet", slots |-> <<>>,
                               participants |-> <<>>]
        /\ log = Quiet("start")
        /\ response = no_response
        /\ saved = None
        /\ issued = {}

NextApp ==
    \/ SetEventState
    \/ CloseAndDistributeRejected
    \/ SavePreferencesDuplicates
    \/ SavePreferencesRejected
    \/ SavePreferences
    \/ Autosave
    \/ CloseAndDistribute
    \/ RankAll
    \/ NoMoreSeats
    \/ AddParticipant
    \/ SlotDone
    \/ Finish

SpecApp == InitApp /\ [][NextApp]_vars

\* A step of a run that has begun: the handler is synchronous and keeps its
\* thread until it returns.
RunStep == RankAll \/ NoMoreSeats \/ AddParticipant \/ SlotDone \/ Finish

\* The handlers with the scheduling of a running handler: a run that was
\* called goes on as long as it has a step to take; nothing makes a request
\* arrive.
SpecAppFair == SpecApp /\ WF_vars(RunStep)

----------------------------------------------------------------------------
(* The administrator's handlers that change the sessions and slots of an   *)
(* event, around the run.                                                  *)

\* The largest seats value create_session and edit_session accept.
MaxSeatsAllowed == 10000

\* The seats field of CreateSessionForm and of EditSessionForm.
CreateSeatInputs == {0, MaxSeatsAllowed, MaxSeatsAllowed + 1}
EditSeatInputs == {0, 1, MaxSeatsAllowed + 1}

\* The uuid Uuid::new_v4 can return for a session made by create_session.
NewSessionUuids == {11}

\* The slot_id and session_id of the path: every slot, and the first session
\* of each slot (a deleted one is the uuid that is not found).
SlotIdInputs == 1..Len(Layout)
SessionIdInputs == {Layout[i][1] : i \in 1..Len(Layout)}

\* ev.slots.iter_mut().find(|s| s.uuid == slot_id): the position of the first
\* slot with that uuid, 0 when there is none.
slot_position(slots_, slot_id) ==
    IF \E i \in DOMAIN slots_ : slots_[i].uuid = slot_id
    THEN CHOOSE i \in DOMAIN slots_ :
             /\ slots_[i].uuid = slot_id
             /\ \A j \in DOMAIN slots_ : slots_[j].uuid = slot_id => i <= j
    ELSE 0

\* A plausible slip: only the upper limit of seats is checked.
seats_rejected_above_only(seats) == seats > MaxSeatsAllowed

\* form.seats < 1 || form.seats > 10000 (the name is taken to be non-empty)
seats_rejected(seats) == seats < 1 \/ seats > MaxSeatsAllowed

\* create_session for one request: NotFound for an unknown slot, BadRequest
\* for a rejected form, else slot.sessions.push(EventSession::new(..)).
create_session(slot_id, seats) ==
        LET i == slot_position(slots, slot_id)
        IN /\ storage_write
           /\ IF i = 0
              THEN /\ response' = Response("create_session", "NotFound", state, "none")
                   /\ UNCHANGED <<slots, issued>>
              ELSE IF seats_rejected(seats)
              THEN /\ response' = Response("create_session", "BadRequest", state, "none")
                   /\ UNCHANGED <<slots, issued>>
              ELSE \E uuid \in NewSessionUuids \ issued :
                      /\ slots' = [slots EXCEPT ![i].sessions =
                                      Append(@, new_session(uuid, seats, <<>>, <<>>))]
                      /\ issued' = issued \cup {uuid}
                      /\ response' = Response("create_session", "Redirect", state, "none")
           /\ UNCHANGED <<state, participants, pc, index, ev_clone_for_ref, log, saved>>

CreateSession ==
    \E slot_id \in SlotIdInputs : \E seats \in CreateSeatInputs :
        create_session(slot_id, seats)

\* edit_session for one request: NotFound for an unknown slot or session,
\* BadRequest for a rejected form, else sess.seats = form.seats.
edit_session(slot_id, session_id, seats) ==
        LET i == slot_position(slots, slot_id)
            k == IF i = 0 THEN 0 ELSE session_position(slots[i], session_id)
        IN /\ storage_write
           /\ IF i = 0 \/ k = 0
              THEN /\ response' = Response("edit_session", "NotFound", state, "none")
                   /\ slots' = slots
              ELSE IF seats_rejected(seats)
              THEN /\ response' = Response("edit_session", "BadRequest", state, "none")
                   /\ slots' = slots
              ELSE /\ slots' = [slots EXCEPT ![i].sessions[k].seats = seats]
                   /\ response' = Response("edit_session", "Redirect", state, "none")
           /\ UNCHANGED <<state, participants, pc, index, ev_clone_for_ref, log,
                          saved, issued>>

EditSession ==
    \E slot_id \in SlotIdInputs : \E session_id \in SessionIdInputs :
    \E seats \in EditSeatInputs :
        edit_session(slot_id, session_id, seats)

\* delete_session: slot.sessions.retain(|s| s.uuid != session_id).
DeleteSession ==
    \E slot_id \in SlotIdInputs : \E session_id \in SessionIdInputs :
        LET i == slot_position(slots, slot_id)
        IN /\ storage_write
           /\ IF i = 0
              THEN /\ response' = Response("delete_session", "NotFound", state, "none")
                   /\ slots' = slots
              ELSE /\ slots' = [slots EXCEPT ![i].sessions =
                                   SelectSeq(@, LAMBDA s : s.uuid # session_id)]
                   /\ response' = Response("delete_session", "Redirect", state, "none")
           /\ UNCHANGED <<state, participants, pc, index, ev_clone_for_ref, log,
                          saved, issued>>

\* delete_slot: ev.slots.retain(|s| s.uuid != slot_id).
DeleteSlot ==
    \E slot_id \in SlotIdInputs :
        /\ storage_write
        /\ slots' = SelectSeq(slots, LAMBDA s : s.uuid # slot_id)
        /\ response' = Response("delete_slot", "Redirect", state, "none")
        /\ UNCHANGED <<state, participants, pc, index, ev_clone_for_ref, log,
                       saved, issued>>

\* The applications saved before the administrator goes on: first
\* preferences of the invited participants for the first session.
AdminRequestLists ==
    {q \in RequestLists :
        \A j \in DOMAIN q :
            /\ q[j].participant \in Invited
            /\ q[j].priority = "FirstPreference"
            /\ q[j].session_uuid = 1}

\* An event open for registration whose sessions were created with MaxSeats
\* seats and whose invited participants have saved their preferences.
InitAdmin ==
    \E q \in AdminRequestLists : \E u \in UuidOrders(q) :
        /\ state = "OpenForRegistration"
        /\ slots = new_slots([s \in SessionIds |-> MaxSeats], q, u)
        /\ participants = [p \in Invited |-> 0]
        /\ pc = "idle"
        /\ index = 0
        /\ ev_clone_for_ref = [state |-> "OpenForRegistration", slots |-> <<>>,
                               participants |-> <<>>]
        /\ log = Quiet("start")
        /\ response = no_response
        /\ saved = None
        /\ issued = {u[j] : j \in DOMAIN q}

NextAdmin ==
    \/ CreateSession
    \/ EditSession
    \/ DeleteSession
    \/ DeleteSlot
    \/ CloseAndDistribute
    \/ RankAll
    \/ NoMoreSeats
    \/ AddParticipant
    \/ SlotDone
    \/ Finish

SpecAdmin == InitAdmin /\ [][NextAdmin]_vars

----------------------------------------------------------------------------
(* Invitations: the participants come and go.                              *)
(* An invitation code and the participant registered through it carry the  *)
(* same number. A deleted code can be invited again (add_invites_bulk) and *)
(* then registers a new participant; the name is taken to be given.        *)

\* ev_mut.participants.insert(p.uuid, p) with points_from_previous_rounds: 0
insert_participant(table, participant_id) ==
    [q \in DOMAIN table \cup {participant_id} |->
        IF q = participant_id THEN 0 ELSE table[q]]

\* ev.participants.remove(&participant_id)
remove_participant(table, participant_id) ==
    [q \in DOMAIN table \ {participant_id} |-> table[q]]

\* A plausible slip: the seats are given up, the applications are left.
delete_invite_keeping_applications(slots_, participant_id) ==
    [i \in DOMAIN slots_ |->
        [slots_[i] EXCEPT !.sessions =
            [k \in DOMAIN slots_[i].sessions |->
                [slots_[i].sessions[k] EXCEPT
                    !.participants = SelectSeq(@, LAMBDA p : p # participant_id)]]]]

\* The loops of delete_invite: in every session of every slot,
\* sess.participants.retain(|p| *p != participant_id) and
\* sess.applications.retain(|a| a.participant != participant_id).
delete_invite(slots_, participant_id) ==
    [i \in DOMAIN slots_ |->
        [slots_[i] EXCEPT !.sessions =
            [k \in DOMAIN slots_[i].sessions |->
                [slots_[i].sessions[k] EXCEPT
                    !.participants = SelectSeq(@, LAMBDA p : p # participant_id),
                    !.applications = SelectSeq(@, LAMBDA a : a.participant # participant_id)]]]]

\* event_view: the first visit with an invitation creates its participant.
EventView ==
    \E code \in Invited :
        /\ storage_write
        /\ participants' = IF code \in DOMAIN participants
                           THEN participants
                           ELSE insert_participant(participants, code)
        /\ response' = Response("event_view", "Ok", state, "none")
        /\ UNCHANGED <<state, slots, pc, index, ev_clone_for_ref, log, saved, issued>>

\* save_name: creates the participant of the invitation when there is none.
SaveName ==
    \E code \in Invited :
        /\ storage_write
        /\ participants' = IF code \in DOMAIN participants
                           THEN participants
                           ELSE insert_participant(participants, code)
        /\ response' = Response("save_name", "Redirect", state, "none")
        /\ UNCHANGED <<state, slots, pc, index, ev_clone_for_ref, log, saved, issued>>

\* delete_invite: the participant registered through the invitation is
\* removed from the table, from every participants list and from every
\* queue; an invitation nobody used only disappears.
DeleteInvite ==
    \E code \in Invited :
        /\ storage_write
        /\ IF code \in DOMAIN participants
           THEN /\ participants' = remove_participant(participants, code)
                /\ slots' = delete_invite(slots, code)
           ELSE UNCHANGED <<participants, slots>>
        /\ response' = Response("delete_invite", "Redirect", state, "none")
        /\ UNCHANGED <<state, pc, index, ev_clone_for_ref, log, saved, issued>>

\* An event open for registration, its sessions of one seat each, nobody
\* registered yet.
InitInvite ==
    /\ state = "OpenForRegistration"
    /\ slots = new_slots([s \in SessionIds |-> 1], <<>>, <<>>)
    /\ participants = [p \in {} |-> 0]
    /\ pc = "idle"
    /\ index = 0
    /\ ev_clone_for_ref = [state |-> "OpenForRegistration", slots |-> <<>>,
                           participants |-> <<>>]
    /\ log = Quiet("start")
    /\ response = no_response
    /\ saved = None
    /\ issued = {}

NextInvite ==
    \/ EventView
    \/ SaveName
    \/ DeleteInvite
    \/ SavePreferencesRejected
    \/ SavePreferences
    \/ CloseAndDistribute
    \/ RankAll
    \/ NoMoreSeats
    \/ AddParticipant
    \/ SlotDone
    \/ Finish

SpecInvite == InitInvite /\ [][NextInvite]_vars

----------------------------------------------------------------------------
(* Vocabulary of the properties.                                           *)

SlotIndexes == 1..Len(slots)
SessionIndexes(i) == 1..Len(slots[i].sessions)
Indexes(v) == 1..Len(v)

\* The score find_session_with_highest_ranked_application reads.
Score(application) == unwrap_or(application.calculated_points, 0)

\* How often participant p sits in slot i.
SeatsHeld(p, i) ==
    Cardinality({kn \in UNION {{<<k, n>> : n \in Indexes(slots[i].sessions[k].participants)} :
                                  k \in SessionIndexes(i)} :
                    slots[i].sessions[kn[1]].participants[kn[2]] = p})

\* The sessions of slot i of event ev that hold an application of p.
AppliedTo(ev, p, i) ==
    {k \in Indexes(ev.slots[i].sessions) :
        \E n \in Indexes(ev.slots[i].sessions[k].applications) :
            ev.slots[i].sessions[k].applications[n].participant = p}

\* The run is in the loop of a slot and a session is selected.
Selecting == pc = "allocate" /\ index <= Len(slots) /\ Selected # None

\* The position of the selected session in the slot being allocated.
SelectedIndex ==
    CHOOSE k \in SessionIndexes(index) : slots[index].sessions[k].uuid = Selected[1]

SelectedSession == slots[index].sessions[SelectedIndex]

\* The ranking has happened.
Ranked == pc = "allocate" \/ state = "Finished"

----------------------------------------------------------------------------
(* Properties                                                              *)

\* C1. Capacity: in every state of a run, from the call of
\* close_and_distribute to the state after it returns, every session holds at
\* most as many participants as it has seats.
C1_Capacity ==
    \A i \in SlotIndexes : \A k \in SessionIndexes(i) :
        Len(slots[i].sessions[k].participants) <= slots[i].sessions[k].seats

\* A full session whose remaining applicants were just turned away.
C1_Witness ==
    /\ log.kind = "no_more_seats"
    /\ \E k \in SessionIndexes(index) :
          /\ slots[index].sessions[k].uuid = log.session
          /\ Len(slots[index].sessions[k].participants) = slots[index].sessions[k].seats

\* C2. At most one seat per slot: after a run every participant sits in at
\* most one session of each slot, and at most once in that session's list.
C2_OneSeatPerSlot ==
    state = "Finished" =>
        \A i \in SlotIndexes : \A p \in ParticipantIds : SeatsHeld(p, i) <= 1

\* The run is over and a participant who applied to both sessions of a slot
\* sits in that slot.
C2_Witness ==
    /\ state = "Finished"
    /\ \E i \in SlotIndexes : \E p \in ParticipantIds :
          /\ Cardinality(AppliedTo(ev_clone_for_ref, p, i)) >= 2
          /\ SeatsHeld(p, i) = 1

\* C3. Queue drain: when close_and_distribute has returned successfully, the
\* applications list of every session of every slot is empty.
C3_QueueDrain ==
    state = "Finished" =>
        \A i \in SlotIndexes : \A k \in SessionIndexes(i) :
            slots[i].sessions[k].applications = <<>>

\* The run is over for an event in which a session had more applicants than
\* seats and another application asked for no preference.
C3_Witness ==
    /\ state = "Finished"
    /\ \E i \in SlotIndexes : \E k \in SessionIndexes(i) :
          Len(ev_clone_for_ref.slots[i].sessions[k].applications)
              > slots[i].sessions[k].seats
    /\ \E i \in SlotIndexes : \E k \in SessionIndexes(i) :
          \E n \in Indexes(ev_clone_for_ref.slots[i].sessions[k].applications) :
              ev_clone_for_ref.slots[i].sessions[k].applications[n].priority = "NoPreference"

\* C5. Select: for every slot, find_session_with_highest_ranked_application
\* returns None exactly when every queue of the slot is empty, and otherwise
\* the uuid of the session whose first application has the maximum score
\* among the first applications, the last such session in the slot's order.
C5_Select ==
    \A i \in SlotIndexes :
        LET sessions == slots[i].sessions
            pending == {k \in Indexes(sessions) : sessions[k].applications # <<>>}
            first(k) == Score(Head(sessions[k].applications))
            found == find_session_with_highest_ranked_application(slots[i])
        IN /\ (found = None) <=> (pending = {})
           /\ pending # {} =>
                 \E k \in pending :
                    /\ found = Some(sessions[k].uuid)
                    /\ \A j \in pending : first(j) <= first(k)
                    /\ \A j \in pending : first(j) = first(k) => j <= k

\* The loop of slot 1 is running and the first applications of its two
\* sessions tie, while a later application of the first session scores less.
C5_Witness ==
    /\ pc = "allocate"
    /\ index = 1
    /\ LET sessions == slots[1].sessions
       IN /\ Len(sessions[1].applications) >= 2
          /\ sessions[2].applications # <<>>
          /\ Score(sessions[1].applications[1]) = Score(sessions[2].applications[1])
          /\ Score(sessions[1].applications[2]) < Score(sessions[1].applications[1])
          /\ Score(sessions[1].applications[1]) > 0

\* C6. Exhaust: a turn of the loop that finds the selected session with as
\* many participants as seats empties that session's queue and changes
\* nothing else: no participants list, no other queue, no participant's
\* points and not the event state.
C6_Exhaust ==
    [][(Selecting /\ Len(SelectedSession.participants) = SelectedSession.seats) =>
          /\ slots' = [slots EXCEPT
                          ![index].sessions[SelectedIndex].applications = <<>>]
          /\ participants' = participants
          /\ state' = state]_vars

\* A session was just exhausted, full, while the other session of its slot
\* still has a pending application.
C6_Witness ==
    /\ log.kind = "no_more_seats"
    /\ \E k \in SessionIndexes(index) :
          /\ slots[index].sessions[k].uuid # log.session
          /\ slots[index].sessions[k].applications # <<>>
    /\ \E k \in SessionIndexes(index) :
          /\ slots[index].sessions[k].uuid = log.session
          /\ slots[index].sessions[k].applications = <<>>
          /\ Len(slots[index].sessions[k].participants) = slots[index].sessions[k].seats

\* C7. Assign: a turn of the loop that finds a free seat in the selected
\* session appends the participant of its first application to its
\* participants and removes that application; afterwards no session of the
\* slot holds an application of that participant, the applications of the
\* other participants keep their queue and order, the other participants
\* lists of the slot and every other slot are unchanged.
C7_Assign ==
    [][(Selecting /\ Len(SelectedSession.participants) < SelectedSession.seats) =>
          LET first == Head(SelectedSession.applications)
              before == slots[index].sessions
              after == slots'[index].sessions
          IN /\ Len(after) = Len(before)
             /\ after[SelectedIndex].participants =
                    Append(before[SelectedIndex].participants, first.participant)
             /\ \A n \in Indexes(after[SelectedIndex].applications) :
                    after[SelectedIndex].applications[n].uuid # first.uuid
             /\ \A k \in Indexes(after) : \A n \in Indexes(after[k].applications) :
                    after[k].applications[n].participant # first.participant
             /\ \A k \in Indexes(after) :
                    after[k].applications =
                        SelectSeq(before[k].applications,
                                  LAMBDA a : a.participant # first.participant)
             /\ \A k \in Indexes(after) :
                    k # SelectedIndex => after[k].participants = before[k].participants
             /\ \A i \in SlotIndexes : i # index => slots'[i] = slots[i]]_vars

\* A participant who had applied to both sessions of slot 1 was just seated
\* in one of them, and another participant's application is still pending in
\* slot 1.
C7_Witness ==
    /\ log.kind = "added"
    /\ index = 1
    /\ Cardinality(AppliedTo(ev_clone_for_ref, log.participant, 1)) >= 2
    /\ SeatsHeld(log.participant, 1) = 1
    /\ \E k \in SessionIndexes(1) : slots[1].sessions[k].applications # <<>>

\* The points a participant carries after being granted a preference.
CarryOver(priority) ==
    CASE priority = "FirstPreference" -> 0
      [] priority = "SecondPreference" -> 5
      [] priority = "ThirdPreference" -> 10
      [] priority = "NoPreference" -> 15

Pending(slots_) ==
    UNION {UNION {{slots_[i].sessions[k].applications[n] :
                      n \in Indexes(slots_[i].sessions[k].applications)} :
                  k \in Indexes(slots_[i].sessions)} :
           i \in Indexes(slots_)}

\* C9. Scores are fixed for the whole run: from the end of the ranking on, no
\* step changes the calculated_points of an application that stays pending,
\* and every pending application's score is the one computed from the points
\* its participant held when close_and_distribute was called, whatever points
\* the allocation of earlier slots has written since.
C9_ScoresFixed ==
    [][pc = "allocate" =>
          /\ \A a \in Pending(slots') : \E b \in Pending(slots) :
                b.uuid = a.uuid /\ b.calculated_points = a.calculated_points
          /\ \A a \in Pending(slots') :
                a.calculated_points =
                    Some(ev_clone_for_ref.participants[a.participant]
                         + preference_points(a.priority))]_vars

\* During the allocation an application is pending whose participant's points
\* are no longer those held when the run started.
C9_Witness ==
    /\ pc = "allocate"
    /\ \E a \in Pending(slots) :
          /\ participants[a.participant] # ev_clone_for_ref.participants[a.participant]
          /\ a.calculated_points # None

\* a is ranked before b.
Better(a, b) ==
    \/ Score(a) > Score(b)
    \/ Score(a) = Score(b) /\ a.uuid > b.uuid

\* C10. Ranking order: after rank_applications each queue holds exactly the
\* applications of known participants it held before, best first: of two
\* neighbours the first has the higher score, or the same score and the
\* greater uuid. With distinct uuids that order is unique, so it is the same
\* for every insertion order.
C10_RankingOrder ==
    /\ Ranked =>
          \A i \in SlotIndexes : \A k \in SessionIndexes(i) :
              LET queue == slots[i].sessions[k].applications
              IN \A n \in 1..(Len(queue) - 1) : Better(queue[n], queue[n + 1])
    /\ log.kind = "ranked" =>
          \A i \in SlotIndexes : \A k \in SessionIndexes(i) :
              LET queue == slots[i].sessions[k].applications
                  before == ev_clone_for_ref.slots[i].sessions[k].applications
                  kept == {n \in Indexes(before) :
                              before[n].participant \in DOMAIN ev_clone_for_ref.participants}
              IN /\ Len(queue) = Cardinality(kept)
                 /\ \A n \in kept : \E m \in Indexes(queue) :
                        queue[m] = [before[n] EXCEPT
                                       !.calculated_points = queue[m].calculated_points]

\* The ranking has just moved an application in front of one that was
\* inserted before it and has the same score.
C10_Witness ==
    /\ log.kind = "ranked"
    /\ \E i \in SlotIndexes : \E k \in SessionIndexes(i) :
          LET queue == slots[i].sessions[k].applications
              before == ev_clone_for_ref.slots[i].sessions[k].applications
          IN /\ Len(queue) >= 2
             /\ Score(queue[1]) = Score(queue[2])
             /\ \E m, n \in Indexes(before) :
                   /\ m < n
                   /\ before[n].uuid = queue[1].uuid
                   /\ before[m].uuid = queue[2].uuid

\* The bonus of a declared preference.
PreferenceBonus(priority) ==
    CASE priority = "FirstPreference" -> 15
      [] priority = "SecondPreference" -> 10
      [] priority = "ThirdPreference" -> 5
      [] priority = "NoPreference" -> 0

\* C11. Score formula: from the ranking on, the calculated_points of every
\* pending application is the points_from_previous_rounds its participant
\* held when close_and_distribute was called plus 15, 10, 5 or 0 for a first,
\* second, third or no preference.
C11_ScoreFormula ==
    Ranked =>
        \A a \in Pending(slots) :
            /\ a.participant \in DOMAIN ev_clone_for_ref.participants
            /\ a.calculated_points =
                   Some(ev_clone_for_ref.participants[a.participant]
                        + PreferenceBonus(a.priority))

\* The ranking has just scored a second preference of a participant who
\* carries 5 points: 15.
C11_Witness ==
    /\ log.kind = "ranked"
    /\ \E a \in Pending(slots) :
          /\ a.priority = "SecondPreference"
          /\ ev_clone_for_ref.participants[a.participant] = 5
          /\ a.calculated_points = Some(15)

\* The applications of the queue v, as a set.
Members(v) == {v[n] : n \in Indexes(v)}

\* The participants seated anywhere in the event.
Seated ==
    UNION {UNION {Members(slots[i].sessions[k].participants) : k \in SessionIndexes(i)} :
           i \in SlotIndexes}

\* C12. Unknown-participant guard: rank_applications removes exactly the
\* applications whose participant is not a key of the event's participant
\* table and keeps every other one; the run goes on and ends successfully,
\* and no participant missing from the table is ever seated.
C12_UnknownParticipants ==
    /\ log.kind = "ranked" =>
          \A i \in SlotIndexes : \A k \in SessionIndexes(i) :
              {a.uuid : a \in Members(slots[i].sessions[k].applications)} =
              {a.uuid : a \in {b \in Members(ev_clone_for_ref.slots[i].sessions[k].applications) :
                                  b.participant \in DOMAIN participants}}
    /\ Ranked => \A a \in Pending(slots) : a.participant \in DOMAIN participants
    /\ Seated \subseteq DOMAIN participants

\* The run has ended for an event that held an application of a participant
\* missing from the table, beside an application that was seated.
C12_Witness ==
    /\ state = "Finished"
    /\ \E a \in Pending(ev_clone_for_ref.slots) : a.participant \notin DOMAIN participants
    /\ Seated # {}

\* C13. Ranking is idempotent: rank_applications applied again to a ranked
\* session, with the same participant table, gives the same queue: same
\* applications, same order, same scores.
C13_RankIdempotent ==
    log.kind = "ranked" =>
        \A i \in SlotIndexes : \A k \in SessionIndexes(i) :
            rank_applications(slots[i].sessions[k], ev_clone_for_ref) = slots[i].sessions[k]

\* The ranking has just reordered a queue whose applications carry points
\* and tie.
C13_Witness ==
    /\ log.kind = "ranked"
    /\ \E i \in SlotIndexes : \E k \in SessionIndexes(i) :
          LET queue == slots[i].sessions[k].applications
              before == ev_clone_for_ref.slots[i].sessions[k].applications
          IN /\ Len(queue) >= 2
             /\ Score(queue[1]) = Score(queue[2])
             /\ queue[1].priority # queue[2].priority
             /\ queue[1].uuid # before[1].uuid

\* A step of the run has changed a participants list or a queue after the
\* ranking: an Assign or an Exhaust.
AssignOrExhaust == pc = "allocate" /\ slots' # slots

\* C17. Pipeline ordering: the ranking of every session of every slot is
\* complete before the first Assign or Exhaust of any slot; the Assign and
\* Exhaust steps of slot i all happen before the first of slot i+1, in the
\* stored slot order, and every slot is gone through exactly once.
C17_Pipeline ==
    [][/\ (slots' # slots /\ pc # "rank") => AssignOrExhaust
       /\ AssignOrExhaust =>
             /\ index \in SlotIndexes
             /\ \A i \in SlotIndexes : i # index => slots'[i] = slots[i]
             /\ \A i \in SlotIndexes :
                   i < index => \A k \in SessionIndexes(i) :
                                   slots[i].sessions[k].applications = <<>>
             /\ \A i \in SlotIndexes :
                   i > index =>
                       /\ slots[i] = ranked_slots(ev_clone_for_ref.slots, ev_clone_for_ref)[i]
                       /\ \A k \in SessionIndexes(i) :
                             slots[i].sessions[k].participants = <<>>
             /\ \A a \in Pending(slots) : a.calculated_points # None
       /\ pc = "allocate" => index' \in {index, index + 1}
       /\ (pc = "allocate" /\ pc' # "allocate") => index = Len(slots) + 1]_vars

\* A participant was just seated in the second slot, after somebody was
\* seated in the first.
C17_Witness ==
    /\ log.kind = "added"
    /\ index = 2
    /\ \E k \in SessionIndexes(1) : slots[1].sessions[k].participants # <<>>
    /\ \E k \in SessionIndexes(2) : slots[2].sessions[k].applications # <<>>

\* The run of close_and_distribute has started (the clone is taken).
Started == pc # "idle" \/ state = "Finished"

\* The event close_and_distribute was called on is Scenario A: sessions Math
\* then Art in the first slot, one seat each, P1 and P2 apply First to Math,
\* P3 applies First to Art, nobody carries points, P1's application uuid is
\* greater than P2's; no other application in the event.
ScenarioA(P1, P2, P3) ==
    /\ Started
    /\ Cardinality({P1, P2, P3}) = 3
    /\ \A p \in {P1, P2, P3} :
          p \in DOMAIN ev_clone_for_ref.participants /\ ev_clone_for_ref.participants[p] = 0
    /\ LET Math == ev_clone_for_ref.slots[1].sessions[1]
           Art == ev_clone_for_ref.slots[1].sessions[2]
       IN /\ Math.seats = 1 /\ Art.seats = 1
          /\ Len(Math.applications) = 2
          /\ Len(Art.applications) = 1
          /\ \E a \in Members(Math.applications) : \E b \in Members(Math.applications) :
                /\ a.participant = P1 /\ b.participant = P2
                /\ a.priority = "FirstPreference" /\ b.priority = "FirstPreference"
                /\ a.uuid > b.uuid
          /\ Art.applications[1].participant = P3
          /\ Art.applications[1].priority = "FirstPreference"
    /\ \A i \in Indexes(ev_clone_for_ref.slots) :
          i # 1 => \A k \in Indexes(ev_clone_for_ref.slots[i].sessions) :
                      ev_clone_for_ref.slots[i].sessions[k].applications = <<>>

\* C18. Scenario A outcome: the run ends with Math.participants = [P1],
\* Art.participants = [P3], P2 seated nowhere and every queue empty.
C18_ScenarioAOutcome ==
    \A P1 \in ParticipantIds : \A P2 \in ParticipantIds : \A P3 \in ParticipantIds :
        (ScenarioA(P1, P2, P3) /\ state = "Finished") =>
            /\ slots[1].sessions[1].participants = <<P1>>
            /\ slots[1].sessions[2].participants = <<P3>>
            /\ \A i \in SlotIndexes : SeatsHeld(P2, i) = 0
            /\ Pending(slots) = {}

\* The run of a Scenario A event is over.
C18_Witness ==
    /\ state = "Finished"
    /\ \E P1 \in ParticipantIds : \E P2 \in ParticipantIds : \E P3 \in ParticipantIds :
          ScenarioA(P1, P2, P3)

\* The claim as stated, C19: P1 is seated in Math, then P2's application is
\* purged by an Exhaust of Math, then P3 is seated in Art; so once P3 sits in
\* Art, P1 sits in Math and Math's queue is empty.
C19_AsStated ==
    \A P1 \in ParticipantIds : \A P2 \in ParticipantIds : \A P3 \in ParticipantIds :
        (ScenarioA(P1, P2, P3) /\ slots[1].sessions[2].participants = <<P3>>) =>
            /\ slots[1].sessions[1].participants = <<P1>>
            /\ slots[1].sessions[1].applications = <<>>

\* C19, amended. Scenario A step order: P3 is seated in Art first (Art is the
\* later session of the 15-15 tie between the first applications), then P1
\* is seated in Math, then P2's application is purged by an Exhaust of Math.
C19_ScenarioASteps ==
    [][\A P1 \in ParticipantIds : \A P2 \in ParticipantIds : \A P3 \in ParticipantIds :
          (ScenarioA(P1, P2, P3) /\ pc = "allocate") =>
              LET Math == slots[1].sessions[1]
                  Art == slots[1].sessions[2]
                  holds(session, p) == \E a \in Members(session.applications) : a.participant = p
              IN /\ (Art.participants # slots'[1].sessions[2].participants) =>
                        /\ log'.kind = "added" /\ log'.participant = P3
                        /\ slots'[1].sessions[2].participants = <<P3>>
                        /\ Math.participants = <<>>
                        /\ holds(Math, P1) /\ holds(Math, P2)
                 /\ (Math.participants # slots'[1].sessions[1].participants) =>
                        /\ log'.kind = "added" /\ log'.participant = P1
                        /\ slots'[1].sessions[1].participants = <<P1>>
                        /\ Art.participants = <<P3>>
                        /\ holds(Math, P2) /\ holds(slots'[1].sessions[1], P2)
                 /\ (holds(Math, P2) /\ ~holds(slots'[1].sessions[1], P2)) =>
                        /\ log'.kind = "no_more_seats"
                        /\ Math.participants = <<P1>>
                        /\ Art.participants = <<P3>>]_vars

\* In a Scenario A run Math was just exhausted: its queue is empty, P1 sits
\* in Math and P3 in Art.
C19_Witness ==
    /\ log.kind = "no_more_seats"
    /\ \E P1 \in ParticipantIds : \E P2 \in ParticipantIds : \E P3 \in ParticipantIds :
          /\ ScenarioA(P1, P2, P3)
          /\ slots[1].sessions[1].participants = <<P1>>
          /\ slots[1].sessions[2].participants = <<P3>>
          /\ slots[1].sessions[1].applications = <<>>

\* C20. Only applicants are seated: a participant is in the participants of
\* a session only if that session held an application of the participant
\* when the run started; who has no application in a slot sits in no session
\* of it, and the run still ends.
C20_OnlyApplicants ==
    Started =>
        \A i \in SlotIndexes : \A k \in SessionIndexes(i) :
            \A p \in Members(slots[i].sessions[k].participants) :
                k \in AppliedTo(ev_clone_for_ref, p, i)

\* The run is over; a participant of the table had no application in the
\* first slot and sits in none of its sessions, while another one was seated
\* there.
C20_Witness ==
    /\ state = "Finished"
    /\ \E p \in DOMAIN participants :
          /\ AppliedTo(ev_clone_for_ref, p, 1) = {}
          /\ SeatsHeld(p, 1) = 0
          /\ \E q \in DOMAIN participants : q # p /\ SeatsHeld(q, 1) = 1

\* The transitions of the lifecycle.
LifecycleEdges ==
    {<<"NotOpenedYet", "OpenForRegistration">>,
     <<"OpenForRegistration", "NotOpenedYet">>,
     <<"OpenForRegistration", "AssigningSeats">>,
     <<"AssigningSeats", "Finished">>}

\* The step is a call of the handler that has returned a response.
Returned(handler) == response' # response /\ response'.handler = handler

\* The claim as stated, C14: the state changes only along the four edges; a
\* set_event_state request for the state the event is in succeeds and
\* changes nothing; a request for a transition that is not an edge is
\* rejected and changes nothing.
C14_AsStated ==
    [][/\ state' # state => <<state, state'>> \in LifecycleEdges
       /\ Returned("set_event_state") =>
             /\ response'.desired = state =>
                   response'.status = "Redirect" /\ state' = state
             /\ (response'.desired # state
                 /\ <<state, response'.desired>> \notin LifecycleEdges) =>
                   response'.status = "BadRequest" /\ state' = state]_vars

\* C14, amended. Lifecycle transition table: the state changes only along
\* NotOpenedYet -> OpenForRegistration, OpenForRegistration -> NotOpenedYet,
\* OpenForRegistration -> AssigningSeats and AssigningSeats -> Finished; a
\* set_event_state request for NotOpenedYet or OpenForRegistration made in
\* that very state succeeds as a no-op, a request to go from one of the two
\* to the other succeeds, and every other request, one naming AssigningSeats
\* or Finished included, is rejected with the event left unchanged.
C14_Lifecycle ==
    [][/\ state' # state => <<state, state'>> \in LifecycleEdges
       /\ Returned("set_event_state") =>
             LET desired == response'.desired
             IN /\ response'.seen = state
                /\ slots' = slots /\ participants' = participants
                /\ IF /\ desired \in {"NotOpenedYet", "OpenForRegistration"}
                      /\ state \in {"NotOpenedYet", "OpenForRegistration"}
                   THEN response'.status = "Redirect" /\ state' = desired
                   ELSE response'.status = "BadRequest" /\ state' = state]_vars

\* After a whole lifecycle the finished event, with somebody seated, was
\* asked to go back to OpenForRegistration and the request was rejected.
C14_Witness ==
    /\ state = "Finished"
    /\ Seated # {}
    /\ response = Response("set_event_state", "BadRequest", "Finished", "OpenForRegistration")

\* C15. Run precondition: close_and_distribute called on an event that is
\* NotOpenedYet, AssigningSeats or Finished returns a rejection and leaves
\* the state, every participants list, every queue and every participant's
\* points unchanged.
C15_RunPrecondition ==
    [][(/\ pc = "idle"
        /\ state \in {"NotOpenedYet", "AssigningSeats", "Finished"}
        /\ Returned("close_and_distribute")) =>
          /\ response'.status = "BadRequest"
          /\ state' = state /\ slots' = slots /\ participants' = participants
          /\ pc' = "idle"]_vars

\* close_and_distribute was called again on the finished event, with
\* somebody seated, and was rejected.
C15_Witness ==
    /\ state = "Finished"
    /\ Seated # {}
    /\ response = Response("close_and_distribute", "BadRequest", "Finished", "none")

\* A snapshot shows no run in progress: not AssigningSeats, no scored
\* application, and nobody seated unless the event is Finished.
SnapshotWhole(snapshot) ==
    snapshot # None =>
        /\ snapshot[1].state # "AssigningSeats"
        /\ ~snapshot[1].scored
        /\ snapshot[1].state # "Finished" =>
              \A i \in DOMAIN snapshot[1].participants :
                  \A k \in DOMAIN snapshot[1].participants[i] :
                      snapshot[1].participants[i][k] = <<>>

\* C16. Whole-event critical section: from the step that sets AssigningSeats
\* to the step that sets Finished no snapshot is taken, no handler returns a
\* response made from the storage, and only the run writes the event; no
\* handler reads an event in state AssigningSeats and no snapshot shows
\* AssigningSeats or a partly applied allocation.
C16_CriticalSection ==
    [][/\ pc # "idle" =>
             /\ saved' = saved
             /\ issued' = issued
             /\ response' # response =>
                   \/ response'.seen = "none"
                   \/ pc' = "idle" /\ response'.handler = "close_and_distribute"
             /\ <<state', slots', participants'>> # <<state, slots, participants>> =>
                   log' # log
       /\ response'.seen # "AssigningSeats"
       /\ SnapshotWhole(saved')]_vars

\* A run is under way and has seated somebody; the last snapshot was taken
\* while the event was open, and a save_preferences request has been
\* answered since the run began.
C16_Witness ==
    /\ pc = "allocate"
    /\ Seated # {}
    /\ saved # None
    /\ saved[1].state = "OpenForRegistration"
    /\ response.handler = "save_preferences"

\* The queues of the event, session by session.
Queues(slots_) ==
    [i \in DOMAIN slots_ |->
        [k \in DOMAIN slots_[i].sessions |-> slots_[i].sessions[k].applications]]

\* C22. No applications in the terminal phase: whenever the event is
\* Finished, every session's applications list is empty, whatever was
\* called since the run, save_preferences included.
C22_NoApplicationsWhenFinished ==
    state = "Finished" => Pending(slots) = {}

\* C23. Applications are created only while registration is open: a
\* save_preferences call made while the event is NotOpenedYet, AssigningSeats
\* or Finished leaves every session's applications list unchanged (outside a
\* run, a queue changes only in state OpenForRegistration).
C23_OnlyWhileOpen ==
    [][(pc = "idle" /\ pc' = "idle" /\ state # "OpenForRegistration") =>
          Queues(slots') = Queues(slots)]_vars

\* The applications of participant p pending in slot i, as <<session
\* position, queue position>> pairs.
Held(p, i) ==
    UNION {{<<k, n>> : n \in {m \in Indexes(slots[i].sessions[k].applications) :
                                slots[i].sessions[k].applications[m].participant = p}} :
           k \in SessionIndexes(i)}

\* C24. Preference uniqueness: after any sequence of save_preferences calls,
\* accepted or rejected, every participant has in every slot at most one
\* pending application per session and at most one application of each rank
\* First, Second and Third over the sessions of the slot.
C24_PreferenceUniqueness ==
    \A i \in SlotIndexes : \A p \in ParticipantIds :
        /\ \A k \in SessionIndexes(i) :
              Cardinality({kn \in Held(p, i) : kn[1] = k}) <= 1
        /\ \A priority \in {"FirstPreference", "SecondPreference", "ThirdPreference"} :
              Cardinality({kn \in Held(p, i) :
                  slots[i].sessions[kn[1]].applications[kn[2]].priority = priority}) <= 1

\* Before any run both uuids have been issued and one application is
\* pending: a participant has saved again and the earlier application was
\* replaced.
C24_Witness ==
    /\ log.kind = "start"
    /\ issued = NewApplicationUuids
    /\ Cardinality(Pending(slots)) = 1
    /\ response = Response("save_preferences", "Redirect", "OpenForRegistration", "none")

\* C25. Application-session consistency: every application in a session's
\* queue has that session's uuid as session_uuid, so the id the Select step
\* returns names a session of the slot being processed whose queue is not
\* empty.
C25_SessionConsistency ==
    /\ \A i \in SlotIndexes : \A k \in SessionIndexes(i) :
          \A a \in Members(slots[i].sessions[k].applications) :
              a.session_uuid = slots[i].sessions[k].uuid
    /\ Selecting =>
          \E k \in SessionIndexes(index) :
              /\ slots[index].sessions[k].uuid = Selected[1]
              /\ slots[index].sessions[k].applications # <<>>

\* The run selects a session of the second slot for an application saved
\* through save_preferences, after the first slot seated somebody.
C25_Witness ==
    /\ Selecting
    /\ index = 2
    /\ issued # {}
    /\ \E k \in SessionIndexes(1) : slots[1].sessions[k].participants # <<>>

\* C28. Allocation runs at most once per event: once the event is Finished
\* no operation changes its state, so close_and_distribute starts a run at
\* most once, and the ranking never reads points a run has written.
C28_RunsOnce ==
    [][/\ state = "Finished" => state' = "Finished"
       /\ (pc = "idle" /\ pc' # "idle") => log.kind = "start"
       /\ (pc = "rank" /\ pc' # "rank") =>
             \A p \in DOMAIN ev_clone_for_ref.participants :
                 ev_clone_for_ref.participants[p] = 0]_vars

\* The run is over and has left a participant with 5 carried points; a
\* request to return to NotOpenedYet was rejected.
C28_Witness ==
    /\ state = "Finished"
    /\ \E p \in DOMAIN participants : participants[p] = 5
    /\ response = Response("set_event_state", "BadRequest", "Finished", "NotOpenedYet")

\* The claim as stated, C29: an event a run has left in AssigningSeats can
\* be handed to close_and_distribute again, whose state check lets it in.
C29_AsStated ==
    state = "AssigningSeats" => can_close_and_distribute(state)

\* C29, amended. An event is in AssigningSeats only while a run holds the
\* lock, with the mutations applied so far; close_and_distribute would turn
\* such an event away and set_event_state rejects every request for it, so
\* there is no retry: the only step that leaves AssigningSeats is the run's
\* own move to Finished, made once every queue is drained.
C29_NoRetry ==
    [][state = "AssigningSeats" =>
          /\ pc # "idle"
          /\ ~can_close_and_distribute(state)
          /\ \A desired \in DesiredStates :
                \/ target_of(desired) = None
                \/ ~allowed_transition(state, target_of(desired)[1])
          /\ state' \in {"AssigningSeats", "Finished"}
          /\ state' = "Finished" => Pending(slots') = {}]_vars

\* A run is under way with its mutations half applied: somebody is seated
\* and an application is still pending.
C29_Witness ==
    /\ state = "AssigningSeats"
    /\ pc = "allocate"
    /\ Seated # {}
    /\ Pending(slots) # {}

\* The number of pending applications of slot i.
PendingCount(slots_, i) ==
    Cardinality(UNION {{<<k, n>> : n \in DOMAIN slots_[i].sessions[k].applications} :
                       k \in DOMAIN slots_[i].sessions})

\* C27. Termination: every Assign or Exhaust step strictly decreases the
\* number of pending applications of the slot being processed, and a run
\* that has begun reaches state Finished.
C27_Termination ==
    /\ [][AssignOrExhaust =>
             PendingCount(slots', index) < PendingCount(slots, index)]_vars
    /\ (state = "AssigningSeats") ~> (state = "Finished")

\* The pass of the first slot is done: of its two pending applications one
\* was seated and the other dropped by an Exhaust.
C27_Witness ==
    /\ log.kind = "slot_done"
    /\ index = 2
    /\ PendingCount(ev_clone_for_ref.slots, 1) = 2
    /\ PendingCount(slots, 1) = 0
    /\ Cardinality({p \in ParticipantIds : SeatsHeld(p, 1) = 1}) = 1


\* C30: create_session and edit_session with seats below 1 or above 10000
\* return a rejection and leave the storage unchanged, so every session of
\* every reachable state has between 1 and 10000 seats.
C30_InvalidCapacityRejected ==
    /\ [](\A i \in SlotIndexes : \A k \in SessionIndexes(i) :
             /\ 1 <= slots[i].sessions[k].seats
             /\ slots[i].sessions[k].seats <= 10000)
    /\ [][\/ /\ response'.status \in {"BadRequest", "NotFound"}
                /\ Event' = Event
             \/ \A seats \in CreateSeatInputs \cup EditSeatInputs :
                   (seats < 1 \/ seats > 10000) =>
                       /\ \A slot_id \in SlotIdInputs :
                             ~create_session(slot_id, seats)
                       /\ \A slot_id \in SlotIdInputs :
                          \A session_id \in SessionIdInputs :
                             ~edit_session(slot_id, session_id, seats)]_vars

\* A session created with 10000 seats and a session edited down to 1 seat
\* exist, and an edit with a seats value out of range has just been rejected.
C30_Witness ==
    /\ response = Response("edit_session", "BadRequest", "OpenForRegistration", "none")
    /\ \E i \in SlotIndexes : \E k \in SessionIndexes(i) :
          slots[i].sessions[k].seats = MaxSeatsAllowed
    /\ \E i \in SlotIndexes : \E k \in SessionIndexes(i) :
          /\ slots[i].sessions[k].seats = 1
          /\ slots[i].sessions[k].uuid \in SessionIds


\* C21: in every state reachable by the admin and user operations, also
\* those performed after the event is Finished, no session holds more
\* participants than it has seats.
C21_OccupancyOverAllOperations ==
    ~ \E i \in SlotIndexes : \E k \in SessionIndexes(i) :
          Len(slots[i].sessions[k].participants) > slots[i].sessions[k].seats


\* C26: the allocation stage never fails. While a run is under way the slot
\* lookup by index, the lookup of the selected session by uuid and the
\* removal of its first application succeed, so that one of the run's steps
\* can always be taken; and a call that found the event OpenForRegistration
\* and has ended returned a redirect with the event Finished. This holds for every event the handlers can build, with or
\* without applications, sessions or slots.
C26_AllocationNeverFails ==
    /\ (pc = "allocate" /\ index <= Len(slots)) => index \in DOMAIN slots
    /\ Selecting =>
          /\ session_position(slots[index], Selected[1]) # 0
          /\ slots[index].sessions[session_position(slots[index], Selected[1])]
                 .applications # <<>>
    /\ pc # "idle" => ENABLED RunStep
    /\ (/\ pc = "idle"
        /\ response.handler = "close_and_distribute"
        /\ response.seen = "OpenForRegistration") =>
          /\ response.status = "Redirect"
          /\ state = "Finished"

\* A run has just returned on an event whose second slot has lost its only
\* session, whose first slot has a session that never had an application and
\* a session created by the administrator, and it seated somebody.
C26_Witness ==
    /\ log.kind = "finished"
    /\ response = Response("close_and_distribute", "Redirect", "OpenForRegistration", "none")
    /\ Len(slots) = 2
    /\ slots[2].sessions = <<>>
    /\ Len(slots[1].sessions) = 3
    /\ Len(slots[1].sessions[1].participants) = 1
    /\ Pending(ev_clone_for_ref.slots) # {}

\* A run has just returned on an event that has no slots.
C26_NoSlots ==
    /\ log.kind = "finished"
    /\ response = Response("close_and_distribute", "Redirect", "OpenForRegistration", "none")
    /\ slots = <<>>


\* The place of a declared rank, first preference first.
RankPlace(priority) ==
    CASE priority = "FirstPreference" -> 1
      [] priority = "SecondPreference" -> 2
      [] priority = "ThirdPreference" -> 3
      [] priority = "NoPreference" -> 4

\* C31. Score monotonicity: of two scored applications whose participants
\* carried the same points when the run started, the one with the better
\* declared rank has the greater or equal score (First >= Second >= Third >=
\* NoPreference).
C31_ScoreMonotonicity ==
    Ranked =>
        \A a, b \in Pending(slots) :
            (/\ ev_clone_for_ref.participants[a.participant]
                    = ev_clone_for_ref.participants[b.participant]
             /\ RankPlace(a.priority) <= RankPlace(b.priority))
            => Score(a) >= Score(b)

\* Scored applications of two participants who both carried no points, a
\* first preference with 15 and no preference with 0, next to a second
\* preference of a participant who carried 5 points, with 15.
C31_Witness ==
    /\ log.kind = "ranked"
    /\ \E a, b, c \in Pending(slots) :
          /\ a.participant # b.participant
          /\ ev_clone_for_ref.participants[a.participant] = 0
          /\ ev_clone_for_ref.participants[b.participant] = 0
          /\ a.priority = "FirstPreference" /\ Score(a) = 15
          /\ b.priority = "NoPreference" /\ Score(b) = 0
          /\ ev_clone_for_ref.participants[c.participant] = 5
          /\ c.priority = "SecondPreference" /\ Score(c) = 15


\* The loop of slot i has ended.
SlotPassed(i) == Ranked /\ index > i

\* C32. No seat is wasted: a participant of the participant table who had an
\* application in a slot when the run started and sits in no session of that
\* slot once its loop has ended finds every session of the slot they
\* applied to full.
C32_NoSeatWasted ==
    \A i \in SlotIndexes : SlotPassed(i) =>
        \A p \in DOMAIN ev_clone_for_ref.participants :
            (AppliedTo(ev_clone_for_ref, p, i) # {} /\ SeatsHeld(p, i) = 0) =>
                \A k \in AppliedTo(ev_clone_for_ref, p, i) :
                    Len(slots[i].sessions[k].participants) = slots[i].sessions[k].seats

\* The run has ended; three participants applied to the first session, which
\* has two seats, and the one left out sits nowhere in the slot.
C32_Witness ==
    /\ log.kind = "finished"
    /\ Len(ev_clone_for_ref.slots[1].sessions[1].applications) = 3
    /\ slots[1].sessions[1].seats = 2
    /\ Len(slots[1].sessions[1].participants) = 2
    /\ \E p \in ParticipantIds :
          AppliedTo(ev_clone_for_ref, p, 1) # {} /\ SeatsHeld(p, 1) = 0


\* The application that participant p had for session k of slot i when the
\* run started, with the score the ranking gave it.
SeatedApplication(i, k, p) ==
    LET queue == ev_clone_for_ref.slots[i].sessions[k].applications
        a == queue[CHOOSE n \in Indexes(queue) : queue[n].participant = p]
    IN calculate_points(a, ev_clone_for_ref.participants[p])

\* C33. Priority is respected inside a session: every application that an
\* Exhaust of a session discards ranks strictly below, by score and then
\* uuid, every application that was seated in that session during the run.
C33_PriorityInsideSession ==
    [][(AssignOrExhaust /\ log'.kind = "no_more_seats") =>
          \A d \in Members(SelectedSession.applications) :
          \A n \in Indexes(SelectedSession.participants) :
              Better(SeatedApplication(index, SelectedIndex,
                                       SelectedSession.participants[n]), d)]_vars

\* A full session with two seated participants has just been exhausted, and
\* the application it discarded had the score of a seated one.
C33_Witness ==
    /\ log.kind = "no_more_seats"
    /\ index = 1
    /\ log.session = 1
    /\ Len(slots[1].sessions[1].participants) = 2
    /\ \E d \in Members(ev_clone_for_ref.slots[1].sessions[1].applications) :
          /\ SeatsHeld(d.participant, 1) = 0
          /\ \E p \in Members(slots[1].sessions[1].participants) :
                Score(SeatedApplication(1, 1, p))
                    = Score(calculate_points(d, ev_clone_for_ref.participants[d.participant]))


\* The applications pending in slot i.
PendingIn(i) ==
    UNION {Members(slots[i].sessions[k].applications) : k \in SessionIndexes(i)}

\* The application a Select step takes: the first of the selected queue.
SelectedApplication == Head(SelectedSession.applications)

\* C34. Greedy order: the application a Select step takes has the maximum
\* score among the applications pending in the slot at that moment, and
\* inside one slot's loop the scores of the applications taken by successive
\* Select steps never rise, whether the step assigns or exhausts.
C34_GreedyOrder ==
    /\ [](Selecting =>
             \A a \in PendingIn(index) : Score(SelectedApplication) >= Score(a))
    /\ [][(AssignOrExhaust /\ Selecting /\ Selecting') =>
             Score(SelectedApplication') <= Score(SelectedApplication)]_vars

\* In the loop of slot 1 a participant who carried 5 points was seated, a
\* session was then exhausted, and the application selected now scores less
\* than a first preference without carried points.
C34_Witness ==
    /\ Selecting
    /\ index = 1
    /\ log.kind = "no_more_seats"
    /\ \E k \in SessionIndexes(1) : Len(slots[1].sessions[k].participants) = 1
    /\ \E p \in ParticipantIds : SeatsHeld(p, 1) = 1 /\ ev_clone_for_ref.participants[p] = 5
    /\ Score(SelectedApplication) < 15


\* The slots in which participant p holds a seat.
SeatedSlots(p) == {i \in SlotIndexes : SeatsHeld(p, i) > 0}

\* The declared rank of the application that gave p the seat in slot i.
GrantedRank(p, i) ==
    LET k == CHOOSE k \in SessionIndexes(i) :
                 p \in Members(slots[i].sessions[k].participants)
    IN SeatedApplication(i, k, p).priority

Referenced(slots_) ==
    {a.participant : a \in Pending(slots_)}
    \cup UNION {UNION {Members(slots_[i].sessions[k].participants) :
                          k \in Indexes(slots_[i].sessions)} :
                   i \in Indexes(slots_)}

\* C36. Referential integrity of participants: every participant id in a
\* session's applications or participants list is a key of the event's
\* participant table, and a delete_invite that removes a participant leaves
\* none of their applications and seats, and the other participants' entries
\* as they were.
C36_ReferentialIntegrity ==
    /\ [](Referenced(slots) \subseteq DOMAIN participants)
    /\ [][\A p \in DOMAIN participants : p \notin DOMAIN participants' =>
              /\ p \notin Referenced(slots')
              /\ Referenced(slots') = Referenced(slots) \ {p}
              /\ \A q \in DOMAIN participants' : participants'[q] = participants[q]]_vars

\* After a run that seated participants 1 and 2 in different slots,
\* delete_invite has just removed participant 1: only participant 2 is left
\* in the table and on a seat.
C36_Witness ==
    /\ state = "Finished"
    /\ response = Response("delete_invite", "Redirect", "Finished", "none")
    /\ DOMAIN participants = {2}
    /\ \E a, b \in Pending(ev_clone_for_ref.slots) :
          /\ a.participant = 1
          /\ b.participant = 2
          /\ slot_of_session(a.session_uuid) # slot_of_session(b.session_uuid)
    /\ Cardinality(Pending(ev_clone_for_ref.slots)) = 2
    /\ Referenced(slots) = {2}


\* The uuids of the sessions of slots_.
SessionUuids(slots_) ==
    UNION {{slots_[i].sessions[k].uuid : k \in Indexes(slots_[i].sessions)} :
              i \in Indexes(slots_)}

\* The participants seated in the session with uuid u of slots_, nobody when
\* there is no such session.
SeatedIn(slots_, u) ==
    UNION {UNION {Members(slots_[i].sessions[k].participants) :
                     k \in {k \in Indexes(slots_[i].sessions) :
                               slots_[i].sessions[k].uuid = u}} :
              i \in Indexes(slots_)}

\* C37. Seats are assigned only by the run: while the event is NotOpenedYet or
\* OpenForRegistration every session's participants list is empty, and a
\* step that adds a participant to a session is a step of the run, made
\* while the event is AssigningSeats; once the event is Finished no step
\* adds one.
C37_SeatsOnlyByRun ==
    /\ [](state \in {"NotOpenedYet", "OpenForRegistration"} =>
             \A u \in SessionUuids(slots) : SeatedIn(slots, u) = {})
    /\ [][(\E u \in SessionUuids(slots') :
              ~(SeatedIn(slots', u) \subseteq SeatedIn(slots, u))) =>
             (state = "AssigningSeats" /\ pc = "allocate" /\ state' = state)]_vars

\* The event is Finished with somebody seated, and a save_preferences call
\* made since then has left an application pending without seating anybody.
C37_Witness ==
    /\ state = "Finished"
    /\ response = Response("save_preferences", "Redirect", "Finished", "none")
    /\ Cardinality(Seated) = 1
    /\ Cardinality(Pending(slots)) = 1
    /\ \E a \in Pending(slots) : a.participant \notin Seated

============================================================================
